---- MODULE Spec2Model ----
(***************************************************************************)
(* namenode_exporter: the Prometheus collector of namenode_exporter.go.    *)
(*                                                                         *)
(* The model follows Exporter.Collect statement by statement.  One         *)
(* invocation of Collect is a small state machine: the GET is issued, the  *)
(* GET returns (error, non-200, decode failure or a decoded envelope) and  *)
(* the reachability sample is sent, then the loop over envelope.Beans      *)
(* sends one sample per mapped field.  Every `ch <- ...` is one step, so   *)
(* overlapping invocations interleave at the channel sends.                *)
(*                                                                         *)
(* A failed type assertion `x.(float64)` panics.  Collect runs on a        *)
(* goroutine started by the registry's Gather and nothing recovers there,  *)
(* so the panic ends the whole process (alive = FALSE).                    *)
(***************************************************************************)
EXTENDS Integers, Sequences, FiniteSets, TLC

VARIABLES
    e,          \* the *Exporter built by NewExporter (url, client, descriptors)
    described,  \* descriptors received from Describe at MustRegister
    registered, \* MustRegister(NewExporter(...)) has run
    alive,      \* the serving process is running
    inv,        \* per Collect invocation: its locals and position
    cycles      \* number of Collect invocations started so far

vars == <<e, described, registered, alive, inv, cycles>>

-----------------------------------------------------------------------------
(* Bounds of the model *)

MaxBeans == 2     \* longest bean array drawn from BeanCatalogue
MaxCycles == 3    \* collection cycles started in one behaviour
NumInv == 2       \* Collect invocations that may overlap

-----------------------------------------------------------------------------
(* Go values held in a jmxBean (map[string]interface{}) after decoding *)

Nil == [t |-> "nil"]
Num(n) == [t |-> "float64", n |-> n]
Str(s) == [t |-> "string", s |-> s]
Bool(b) == [t |-> "bool", b |-> b]
Nested == [t |-> "map"]

\* nameDataMap[k]: a missing key, a nil map and a JSON null all read as nil.
Lookup(bean, k) == IF k \in DOMAIN bean THEN bean[k] ELSE Nil

\* the nil map a JSON null array element decodes to
NilBean == [k \in {} |-> Nil]

-----------------------------------------------------------------------------
(* NewExporter *)

namespace == "namenode"

BuildFQName(ns, subsystem, name) ==
    IF name = "" THEN ""
    ELSE IF subsystem = "" THEN ns \o "_" \o name
    ELSE ns \o "_" \o subsystem \o "_" \o name

NewExporter(url, timeout) ==
    [ url |-> url,
      httpClient |-> [Timeout |-> timeout],
      up |-> BuildFQName(namespace, "", "up"),
      uptime |-> BuildFQName(namespace, "", "uptime_seconds"),
      state |-> BuildFQName(namespace, "", "state"),
      fsOperational |-> BuildFQName(namespace, "", "fs_operational"),
      safemodeOn |-> BuildFQName(namespace, "", "safemode_on"),
      dataNodesLive |-> BuildFQName(namespace, "", "data_nodes_live"),
      dataNodesDead |-> BuildFQName(namespace, "", "data_nodes_dead"),
      dfsFilesTotal |-> BuildFQName(namespace, "dfs", "files_total"),
      dfsPercentUsed |-> BuildFQName(namespace, "dfs", "percent_used"),
      dfsPercentRemaining |-> BuildFQName(namespace, "dfs", "percent_remaining"),
      dfsCapacityBytesTotal |-> BuildFQName(namespace, "dfs", "capacity_bytes_total"),
      dfsCapacityBytesUsed |-> BuildFQName(namespace, "dfs", "capacity_bytes_used"),
      dfsCapacityBytesRemaining |-> BuildFQName(namespace, "dfs", "capacity_bytes_remaining"),
      dfsNonDfsBytesUsed |-> BuildFQName(namespace, "dfs", "non_dfs_bytes_used"),
      dfsBlocksTotal |-> BuildFQName(namespace, "dfs", "blocks_total"),
      dfsBlocksUnderReplicated |-> BuildFQName(namespace, "dfs", "blocks_under_replicated"),
      dfsBlocksPendingReplication |-> BuildFQName(namespace, "dfs", "blocks_pending_replication"),
      dfsBlocksScheduledReplication |-> BuildFQName(namespace, "dfs", "blocks_scheduled_replication"),
      dfsBlocksPostponedMisreplicated |-> BuildFQName(namespace, "dfs", "blocks_postponed_misreplicated"),
      dfsBlocksPendingDeletion |-> BuildFQName(namespace, "dfs", "blocks_pending_deletion"),
      dfsBlocksMissing |-> BuildFQName(namespace, "dfs", "blocks_missing"),
      dfsBlocksCorrupt |-> BuildFQName(namespace, "dfs", "blocks_corrupt"),
      dfsBlocksExcess |-> BuildFQName(namespace, "dfs", "blocks_excess"),
      dfsBlockPoolBytesUsed |-> BuildFQName(namespace, "dfs", "block_pool_bytes_used"),
      dfsBlockPoolPercentUsed |-> BuildFQName(namespace, "dfs", "block_pool_percent_used"),
      jvmLogFatal |-> BuildFQName(namespace, "jvm", "log_fatal"),
      jvmLogError |-> BuildFQName(namespace, "jvm", "log_error"),
      jvmLogWarn |-> BuildFQName(namespace, "jvm", "log_warn"),
      jvmLogInfo |-> BuildFQName(namespace, "jvm", "log_info"),
      jvmMemHeapMegabytesUsed |-> BuildFQName(namespace, "jvm", "mem_heap_megabytes_used"),
      jvmMemHeapMegabytesCommitted |-> BuildFQName(namespace, "jvm", "mem_heap_megabytes_committed"),
      jvmMemNonHeapMegabytesUsed |-> BuildFQName(namespace, "jvm", "mem_non_heap_megabytes_used"),
      jvmMemNonHeapMegabytesCommitted |-> BuildFQName(namespace, "jvm", "mem_non_heap_megabytes_committed"),
      jvmThreadsNew |-> BuildFQName(namespace, "jvm", "threads_new"),
      jvmThreadsRunnable |-> BuildFQName(namespace, "jvm", "threads_runnable"),
      jvmThreadsBlocked |-> BuildFQName(namespace, "jvm", "threads_blocked"),
      jvmThreadsWaiting |-> BuildFQName(namespace, "jvm", "threads_waiting"),
      jvmThreadsTimedWaiting |-> BuildFQName(namespace, "jvm", "threads_timed_waiting"),
      jvmThreadsTerminated |-> BuildFQName(namespace, "jvm", "threads_terminated") ]

\* flag defaults of main: -namenode.jmx.url and -namenode.jmx.timeout (seconds)
namenodeJmxURL == "http://localhost:50070/jmx"
namenodeJmxTimeout == 5

-----------------------------------------------------------------------------
(* Describe: the descriptors sent on the channel, in order *)

Describe_DropsExcess(x) ==
    << x.up, x.uptime, x.state, x.fsOperational, x.safemodeOn,
       x.dataNodesLive, x.dataNodesDead,
       x.dfsFilesTotal, x.dfsPercentUsed, x.dfsPercentRemaining,
       x.dfsCapacityBytesTotal, x.dfsCapacityBytesUsed,
       x.dfsCapacityBytesRemaining, x.dfsNonDfsBytesUsed,
       x.dfsBlocksTotal, x.dfsBlocksUnderReplicated,
       x.dfsBlocksPendingReplication, x.dfsBlocksScheduledReplication,
       x.dfsBlocksPostponedMisreplicated, x.dfsBlocksPendingDeletion,
       x.dfsBlocksMissing, x.dfsBlocksCorrupt,
       x.dfsBlockPoolBytesUsed, x.dfsBlockPoolPercentUsed,
       x.jvmLogFatal, x.jvmLogError, x.jvmLogWarn, x.jvmLogInfo,
       x.jvmMemHeapMegabytesUsed, x.jvmMemHeapMegabytesCommitted,
       x.jvmMemNonHeapMegabytesUsed, x.jvmMemNonHeapMegabytesCommitted,
       x.jvmThreadsNew, x.jvmThreadsRunnable, x.jvmThreadsBlocked,
       x.jvmThreadsWaiting, x.jvmThreadsTimedWaiting, x.jvmThreadsTerminated >>

Describe(x) ==
    << x.up, x.uptime, x.state, x.fsOperational, x.safemodeOn,
       x.dataNodesLive, x.dataNodesDead,
       x.dfsFilesTotal, x.dfsPercentUsed, x.dfsPercentRemaining,
       x.dfsCapacityBytesTotal, x.dfsCapacityBytesUsed,
       x.dfsCapacityBytesRemaining, x.dfsNonDfsBytesUsed,
       x.dfsBlocksTotal, x.dfsBlocksUnderReplicated,
       x.dfsBlocksPendingReplication, x.dfsBlocksScheduledReplication,
       x.dfsBlocksPostponedMisreplicated, x.dfsBlocksPendingDeletion,
       x.dfsBlocksMissing, x.dfsBlocksCorrupt, x.dfsBlocksExcess,
       x.dfsBlockPoolBytesUsed, x.dfsBlockPoolPercentUsed,
       x.jvmLogFatal, x.jvmLogError, x.jvmLogWarn, x.jvmLogInfo,
       x.jvmMemHeapMegabytesUsed, x.jvmMemHeapMegabytesCommitted,
       x.jvmMemNonHeapMegabytesUsed, x.jvmMemNonHeapMegabytesCommitted,
       x.jvmThreadsNew, x.jvmThreadsRunnable, x.jvmThreadsBlocked,
       x.jvmThreadsWaiting, x.jvmThreadsTimedWaiting, x.jvmThreadsTerminated >>

-----------------------------------------------------------------------------
(* The switch of Collect: bean names and, per case, the sends in order.    *)
(* An entry is <<source field, descriptor field of Exporter, value type,   *)
(* rule>>; rule "float64" is the type assertion .(float64), "eq" the       *)
(* comparison nameDataMap[f] == lit, "ne" the comparison != lit.           *)

RuntimeName == "java.lang:type=Runtime"
NameNodeStatusName == "Hadoop:service=NameNode,name=NameNodeStatus"
FSNamesystemName == "Hadoop:service=NameNode,name=FSNamesystem"
FSNamesystemStateName == "Hadoop:service=NameNode,name=FSNamesystemState"
NameNodeInfoName == "Hadoop:service=NameNode,name=NameNodeInfo"
JvmMetricsName == "Hadoop:service=NameNode,name=JvmMetrics"

RecognizedNames ==
    << RuntimeName, NameNodeStatusName, FSNamesystemName,
       FSNamesystemStateName, NameNodeInfoName, JvmMetricsName >>

Gauge(f, d) == [field |-> f, desc |-> d, valueType |-> "gauge", rule |-> "float64", lit |-> ""]
Counter(f, d) == [field |-> f, desc |-> d, valueType |-> "counter", rule |-> "float64", lit |-> ""]
BoolEq(f, d, lit) == [field |-> f, desc |-> d, valueType |-> "gauge", rule |-> "eq", lit |-> lit]
BoolNe(f, d, lit) == [field |-> f, desc |-> d, valueType |-> "gauge", rule |-> "ne", lit |-> lit]

CaseRuntime == << Gauge("Uptime", "uptime") >>

CaseNameNodeStatus_NotStandby == << BoolNe("State", "state", "standby") >>

CaseNameNodeStatus == << BoolEq("State", "state", "active") >>

CaseFSNamesystem ==
    << Gauge("BlocksTotal", "dfsBlocksTotal"),
       Gauge("UnderReplicatedBlocks", "dfsBlocksUnderReplicated"),
       Gauge("PendingReplicationBlocks", "dfsBlocksPendingReplication"),
       Gauge("ScheduledReplicationBlocks", "dfsBlocksScheduledReplication"),
       Gauge("PostponedMisreplicatedBlocks", "dfsBlocksPostponedMisreplicated"),
       Gauge("PendingDeletionBlocks", "dfsBlocksPendingDeletion"),
       Gauge("MissingBlocks", "dfsBlocksMissing"),
       Gauge("CorruptBlocks", "dfsBlocksCorrupt"),
       Gauge("ExcessBlocks", "dfsBlocksExcess") >>

CaseFSNamesystemState ==
    << BoolEq("FSState", "fsOperational", "Operational"),
       Gauge("NumLiveDataNodes", "dataNodesLive"),
       Gauge("NumDeadDataNodes", "dataNodesDead"),
       Gauge("FilesTotal", "dfsFilesTotal"),
       Gauge("CapacityTotal", "dfsCapacityBytesTotal"),
       Gauge("CapacityUsed", "dfsCapacityBytesUsed"),
       Gauge("CapacityRemaining", "dfsCapacityBytesRemaining") >>

CaseNameNodeInfo ==
    << BoolNe("Safemode", "safemodeOn", ""),
       Gauge("PercentUsed", "dfsPercentUsed"),
       Gauge("PercentRemaining", "dfsPercentRemaining"),
       Gauge("NonDfsUsedSpace", "dfsNonDfsBytesUsed"),
       Gauge("BlockPoolUsedSpace", "dfsBlockPoolBytesUsed"),
       Gauge("PercentBlockPoolUsed", "dfsBlockPoolPercentUsed") >>

CaseJvmMetrics ==
    << Counter("LogFatal", "jvmLogFatal"),
       Counter("LogError", "jvmLogError"),
       Counter("LogWarn", "jvmLogWarn"),
       Counter("LogInfo", "jvmLogInfo"),
       Gauge("MemHeapUsedM", "jvmMemHeapMegabytesUsed"),
       Gauge("MemHeapCommittedM", "jvmMemHeapMegabytesCommitted"),
       Gauge("MemNonHeapUsedM", "jvmMemNonHeapMegabytesUsed"),
       Gauge("MemNonHeapCommittedM", "jvmMemNonHeapMegabytesCommitted"),
       Gauge("ThreadsNew", "jvmThreadsNew"),
       Gauge("ThreadsRunnable", "jvmThreadsRunnable"),
       Gauge("ThreadsBlocked", "jvmThreadsBlocked"),
       Gauge("ThreadsWaiting", "jvmThreadsWaiting"),
       Gauge("ThreadsTimedWaiting", "jvmThreadsTimedWaiting"),
       Gauge("ThreadsTerminated", "jvmThreadsTerminated") >>

\* interface{} == string constant: true only for a string of that value
IfaceEqString(v, s) == v.t = "string" /\ v.s = s

Switch_WithDefault(nameValue) ==
    IF IfaceEqString(nameValue, RuntimeName) THEN CaseRuntime
    ELSE IF IfaceEqString(nameValue, NameNodeStatusName) THEN CaseNameNodeStatus
    ELSE IF IfaceEqString(nameValue, FSNamesystemName) THEN CaseFSNamesystem
    ELSE IF IfaceEqString(nameValue, FSNamesystemStateName) THEN CaseFSNamesystemState
    ELSE IF IfaceEqString(nameValue, NameNodeInfoName) THEN CaseNameNodeInfo
    ELSE IF IfaceEqString(nameValue, JvmMetricsName) THEN CaseJvmMetrics
    ELSE CaseNameNodeStatus

\* switch nameDataMap["name"] { case ...: }; no default case
Switch(nameValue) ==
    IF IfaceEqString(nameValue, RuntimeName) THEN CaseRuntime
    ELSE IF IfaceEqString(nameValue, NameNodeStatusName) THEN CaseNameNodeStatus
    ELSE IF IfaceEqString(nameValue, FSNamesystemName) THEN CaseFSNamesystem
    ELSE IF IfaceEqString(nameValue, FSNamesystemStateName) THEN CaseFSNamesystemState
    ELSE IF IfaceEqString(nameValue, NameNodeInfoName) THEN CaseNameNodeInfo
    ELSE IF IfaceEqString(nameValue, JvmMetricsName) THEN CaseJvmMetrics
    ELSE << >>

-----------------------------------------------------------------------------
(* Samples and the coercion of one mapped field *)

MustNewConstMetric(desc, valueType, value) ==
    [desc |-> desc, valueType |-> valueType, value |-> value]

\* var fval float64; if value { fval = 1 }
mustNewConstBoolMetric(desc, valueType, value) ==
    MustNewConstMetric(desc, valueType, IF value THEN 1 ELSE 0)

\* the string with leading and trailing blanks removed
TrimSpace(s) == IF s \in {" ", "  "} THEN "" ELSE s

IfaceNeString_Trimmed(v, s) == ~(v.t = "string" /\ TrimSpace(v.s) = s)

IfaceNeString_StringsOnly(v, s) == v.t = "string" /\ v.s # s

\* interface{} != string constant
IfaceNeString(v, s) == ~IfaceEqString(v, s)

\* x.(float64) panics unless the dynamic type of x is float64
AssertFloat64Ok(v) == v.t = "float64"

AssertFloat64_Millis(v) == v.n \div 1000

\* the value of x.(float64) when the assertion holds
AssertFloat64(v) == v.n

\* the operand of one send panics
Panics(entry, bean) ==
    entry.rule = "float64" /\ ~AssertFloat64Ok(Lookup(bean, entry.field))

\* the sample of one send (Panics(entry, bean) is false)
SampleOf(x, entry, bean) ==
    LET v == Lookup(bean, entry.field) IN
    CASE entry.rule = "float64" ->
           MustNewConstMetric(x[entry.desc], entry.valueType, AssertFloat64(v))
      [] entry.rule = "eq" ->
           mustNewConstBoolMetric(x[entry.desc], entry.valueType, IfaceEqString(v, entry.lit))
      [] entry.rule = "ne" ->
           mustNewConstBoolMetric(x[entry.desc], entry.valueType, IfaceNeString(v, entry.lit))

-----------------------------------------------------------------------------
(* The response body as JSON text, and json.NewDecoder(body).Decode        *)
(*                                                                         *)
(* A body is the first JSON value of the stream (or the reason there is    *)
(* none) and whether bytes follow it.  Decode reads one value from the     *)
(* stream: bytes after that value are never examined.                      *)

JNull == [j |-> "null"]
JNum(n) == [j |-> "number", n |-> n]
JStr(s) == [j |-> "string", s |-> s]
JBool(b) == [j |-> "bool", b |-> b]
JArr(elems) == [j |-> "array", elems |-> elems]
JObj(members) == [j |-> "object", members |-> members]

\* the float64 a JSON number decodes to (the model's numbers are integers
\* of magnitude below 2^53, which float64 holds exactly)
Float64(n) == n

\* a JSON value decoded into interface{}
DecodeValue(v) ==
    CASE v.j = "null" -> Nil
      [] v.j = "number" -> Num(Float64(v.n))
      [] v.j = "string" -> Str(v.s)
      [] v.j = "bool" -> Bool(v.b)
      [] OTHER -> Nested

\* an array element decoded into jmxBean: an object fills a map, null
\* leaves the nil map, anything else is an UnmarshalTypeError
BeanTypeOk(el) == el.j \in {"object", "null"}

DecodeBean(el) ==
    IF el.j = "object"
    THEN [k \in DOMAIN el.members |-> DecodeValue(el.members[k])]
    ELSE NilBean

\* encoding/json matches an object key to the struct tag "beans" exactly
\* or, failing that, case-insensitively
FoldKey(k) == IF k \in {"beans", "Beans", "BEANS"} THEN "beans" ELSE k

BeansKeys(obj) == {k \in DOMAIN obj.members : FoldKey(k) = "beans"}

OkEnvelope(beans) == [err |-> FALSE, Beans |-> beans]
DecodeError == [err |-> TRUE, Beans |-> << >>]

Decode_RequiresBeans(body) ==
    IF body.syntax # "ok" THEN DecodeError
    ELSE IF body.first.j = "null" THEN DecodeError
    ELSE IF body.first.j # "object" THEN DecodeError
    ELSE IF BeansKeys(body.first) = {} THEN DecodeError
    ELSE LET b == body.first.members[CHOOSE k \in BeansKeys(body.first) : TRUE] IN
         IF b.j = "null" THEN DecodeError
         ELSE IF b.j # "array" THEN DecodeError
         ELSE IF \E n \in 1..Len(b.elems) : ~BeanTypeOk(b.elems[n]) THEN DecodeError
         ELSE OkEnvelope([n \in 1..Len(b.elems) |-> DecodeBean(b.elems[n])])

\* var envelope jmxEnvelope; err = dec.Decode(&envelope)
Decode(body) ==
    IF body.syntax # "ok" THEN DecodeError
    ELSE IF body.first.j = "null" THEN OkEnvelope(<< >>)
    ELSE IF body.first.j # "object" THEN DecodeError
    ELSE IF BeansKeys(body.first) = {} THEN OkEnvelope(<< >>)
    ELSE LET b == body.first.members[CHOOSE k \in BeansKeys(body.first) : TRUE] IN
         IF b.j = "null" THEN OkEnvelope(<< >>)
         ELSE IF b.j # "array" THEN DecodeError
         ELSE IF \E n \in 1..Len(b.elems) : ~BeanTypeOk(b.elems[n]) THEN DecodeError
         ELSE OkEnvelope([n \in 1..Len(b.elems) |-> DecodeBean(b.elems[n])])

-----------------------------------------------------------------------------
(* Fetch results offered to e.httpClient.Get(e.url) *)

\* the JSON object of a bean named `name` whose mapped fields are all
\* present: numeric field number k holds base + k, the string field holds s
Populated(name, base, s) ==
    LET tbl == Switch(Str(name)) IN
    [k \in {"name"} \cup {tbl[n].field : n \in 1..Len(tbl)} |->
        IF k = "name" THEN JStr(name)
        ELSE LET n == CHOOSE n \in 1..Len(tbl) : tbl[n].field = k IN
             IF tbl[n].rule = "float64" THEN JNum(base + n) ELSE JStr(s)]

\* the same object with field f replaced by v
With(obj, f, v) == [k \in DOMAIN obj \cup {f} |-> IF k = f THEN v ELSE obj[k]]

\* the same object with field f left out
Without(obj, f) == [k \in DOMAIN obj \ {f} |-> obj[k]]

FullRuntime == Populated(RuntimeName, 86400000, "")
FullNameNodeStatus == Populated(NameNodeStatusName, 0, "active")
FullFSNamesystem == Populated(FSNamesystemName, 200, "")
FullFSNamesystemState == Populated(FSNamesystemStateName, 300, "Operational")
FullNameNodeInfo == Populated(NameNodeInfoName, 400, "")
FullJvmMetrics == Populated(JvmMetricsName, 500, "")

FullBean(name) ==
    CASE name = RuntimeName -> FullRuntime
      [] name = NameNodeStatusName -> FullNameNodeStatus
      [] name = FSNamesystemName -> FullFSNamesystem
      [] name = FSNamesystemStateName -> FullFSNamesystemState
      [] name = NameNodeInfoName -> FullNameNodeInfo
      [] name = JvmMetricsName -> FullJvmMetrics

\* beans the switch does not recognize
UnknownBeans ==
    { JObj(With(FullRuntime, "name", JStr("java.lang:type=Memory"))),
      JObj(With(FullRuntime, "name", JStr("java.lang:type=runtime"))),
      JObj(Without(FullNameNodeStatus, "name")),
      JObj(With(FullNameNodeInfo, "name", JNum(7))),
      JObj(With(Without(FullRuntime, "name"), "Name", JStr(RuntimeName))),
      JNull }

\* array elements of the bean arrays of length up to MaxBeans
BeanCatalogue ==
    { JObj(FullRuntime),
      JObj(With(FullRuntime, "Uptime", JStr("86400000"))),
      JObj(FullNameNodeStatus),
      JObj(With(FullNameNodeStatus, "State", JStr("standby"))),
      JObj(With(FullNameNodeInfo, "Safemode", JStr(" "))),
      JObj(Without(FullNameNodeInfo, "PercentRemaining")),
      JObj(FullFSNamesystemState) }
    \cup UnknownBeans

RECURSIVE SeqsUpTo(_, _)
SeqsUpTo(S, n) ==
    IF n = 0 THEN { << >> }
    ELSE LET shorter == SeqsUpTo(S, n - 1) IN
         shorter \cup { Append(q, x) : q \in {r \in shorter : Len(r) = n - 1}, x \in S }

\* one recognized bean with one numeric field absent or of another type
BadFieldValues == { JNull, JStr("12"), JBool(TRUE), JObj([k \in {} |-> JNull]) }

FaultyBeans ==
    UNION { LET tbl == Switch(Str(RecognizedNames[m])) IN
            UNION { IF tbl[n].rule # "float64" THEN {}
                    ELSE { JObj(Without(FullBean(RecognizedNames[m]), tbl[n].field)) }
                         \cup { JObj(With(FullBean(RecognizedNames[m]), tbl[n].field, v)) :
                                v \in BadFieldValues }
                    : n \in 1..Len(tbl) }
            : m \in 1..Len(RecognizedNames) }

\* the three string-valued fields, with string and non-string values
StringFieldValues ==
    { JStr("active"), JStr("standby"), JStr("Active"), JStr("active "), JStr(""),
      JStr(" "), JStr("  "), JStr("Operational"), JStr("Safe mode is ON"),
      JNull, JNum(1), JBool(TRUE), JObj([k \in {} |-> JNull]) }

StringFieldBeans ==
    { JObj(With(FullNameNodeStatus, "State", v)) : v \in StringFieldValues }
    \cup { JObj(With(FullFSNamesystemState, "FSState", v)) : v \in StringFieldValues }
    \cup { JObj(With(FullNameNodeInfo, "Safemode", v)) : v \in StringFieldValues }
    \cup { JObj(Without(FullNameNodeStatus, "State")),
           JObj(Without(FullFSNamesystemState, "FSState")),
           JObj(Without(FullNameNodeInfo, "Safemode")) }

\* every recognized name once, fully populated, in several array orders,
\* alone and with unrecognized beans among them
AllSix == [m \in 1..Len(RecognizedNames) |-> JObj(FullBean(RecognizedNames[m]))]

Rotate(q, r) == [n \in 1..Len(q) |-> q[((n + r - 1) % Len(q)) + 1]]
Reverse(q) == [n \in 1..Len(q) |-> q[Len(q) + 1 - n]]

FullArrays ==
    { Rotate(AllSix, r) : r \in 0..(Len(AllSix) - 1) }
    \cup { Reverse(AllSix) }
    \cup { << x >> \o AllSix : x \in UnknownBeans }
    \cup { SubSeq(AllSix, 1, 3) \o << x >> \o SubSeq(AllSix, 4, 6) : x \in UnknownBeans }

BeanArrays ==
    SeqsUpTo(BeanCatalogue, MaxBeans)
    \cup { << b >> : b \in FaultyBeans \cup StringFieldBeans }
    \cup FullArrays

Body(syntax, first, trailing) == [syntax |-> syntax, first |-> first, trailing |-> trailing]

EnvelopeBody(beans) == Body("ok", JObj([k \in {"beans"} |-> JArr(beans)]), FALSE)

\* bodies that are a well-formed envelope {"beans": [...]}
EnvelopeBodies == { EnvelopeBody(b) : b \in BeanArrays }

\* bodies whose first JSON value cannot be read: garbage, a truncated
\* value, an empty body, a read error while the value is being read
UnreadableBodies ==
    { Body("syntax error", JNull, FALSE), Body("unexpected EOF", JNull, FALSE),
      Body("EOF", JNull, FALSE), Body("read error", JNull, FALSE) }

\* well-formed JSON of another shape
OtherShapeBodies ==
    { Body("ok", JObj([k \in {} |-> JNull]), FALSE),
      Body("ok", JObj([k \in {"other"} |-> JArr(<< JObj(FullRuntime) >>)]), FALSE),
      Body("ok", JNull, FALSE),
      Body("ok", JObj([k \in {"beans"} |-> JNull]), FALSE),
      Body("ok", JObj([k \in {"Beans"} |-> JArr(<< JObj(FullRuntime) >>)]), FALSE),
      Body("ok", JObj([k \in {"beans"} |-> JNum(3)]), FALSE),
      Body("ok", JObj([k \in {"beans"} |-> JObj([k2 \in {} |-> JNull])]), FALSE),
      Body("ok", JObj([k \in {"beans"} |-> JArr(<< JObj(FullRuntime), JNum(3) >>)]), FALSE),
      Body("ok", JArr(<< JObj(FullRuntime) >>), FALSE),
      Body("ok", JNum(3), FALSE),
      Body("ok", JStr("beans"), FALSE) }

\* a well-formed value followed by bytes that are not JSON
TrailingBodies ==
    { Body("ok", JObj([k \in {"beans"} |-> JArr(<< >>)]), TRUE),
      Body("ok", JObj([k \in {"beans"} |-> JArr(<< JObj(FullRuntime) >>)]), TRUE),
      Body("ok", JObj([k \in {} |-> JNull]), TRUE) }

Bodies == EnvelopeBodies \cup UnreadableBodies \cup OtherShapeBodies \cup TrailingBodies

StatusOK == 200

Response(status, body) == [err |-> "", StatusCode |-> status, Body |-> body]
GetError(msg) == [err |-> msg, StatusCode |-> 0, Body |-> Body("EOF", JNull, FALSE)]

GetErrors == { GetError("connection refused"), GetError("Client.Timeout exceeded") }

OtherStatuses == { 204, 404, 500, 503 }

NotOKResponses ==
    { Response(s, b) : s \in OtherStatuses,
                       b \in { EnvelopeBody(AllSix), EnvelopeBody(<< >>),
                               Body("syntax error", JNull, FALSE) } }

\* what one Get may return in the sequential specification
FetchResults ==
    GetErrors \cup NotOKResponses \cup { Response(StatusOK, b) : b \in Bodies }

\* what one Get may return where invocations overlap
OverlapFetchResults ==
    { GetError("connection refused"),
      Response(503, EnvelopeBody(<< >>)),
      Response(StatusOK, Body("syntax error", JNull, FALSE)),
      Response(StatusOK, EnvelopeBody(<< JObj(FullRuntime), JObj(FullNameNodeStatus) >>)),
      Response(StatusOK, EnvelopeBody(<< JObj(FullNameNodeStatus), JObj(FullRuntime) >>)),
      Response(StatusOK, EnvelopeBody(<< JObj(FullNameNodeStatus),
                                         JObj(Without(FullRuntime, "Uptime")) >>)) }

-----------------------------------------------------------------------------
(* Collect *)

Invocations == 1..NumInv

NoResponse == [err |-> "", StatusCode |-> 0, Body |-> Body("EOF", JNull, FALSE)]

\* an invocation that is not running: no locals
Idle ==
    [ pc |-> "idle", resp |-> NoResponse, envelope |-> << >>,
      i |-> 0, j |-> 0, out |-> << >>, origin |-> << >>, gets |-> 0 ]

StatusIsOK_Any2xx(code) == code \div 100 = 2

\* resp.StatusCode != http.StatusOK, negated
StatusIsOK(code) == code = StatusOK

RangeIndex_Backwards(n, i) == n + 1 - i

\* for _, nameDataMap := range envelope.Beans: the index visited i-th
RangeIndex(n, i) == i

\* the bean and the case of the switch the loop is at
CurrentBean(x) == x.envelope[RangeIndex(Len(x.envelope), x.i)]
CurrentCase(x) == Switch(Lookup(CurrentBean(x), "name"))

Init ==
    /\ e = NewExporter(namenodeJmxURL, namenodeJmxTimeout)
    /\ described = {}
    /\ registered = FALSE
    /\ alive = TRUE
    /\ inv = [c \in Invocations |-> Idle]
    /\ cycles = 0

\* prometheus.MustRegister(NewExporter(...)): the registry calls Describe
Register ==
    /\ alive /\ ~registered
    /\ registered' = TRUE
    /\ described' = { Describe(e)[n] : n \in 1..Len(Describe(e)) }
    /\ UNCHANGED <<e, alive, inv, cycles>>

Invoke_KeepsLocals(c) ==
    /\ alive /\ registered
    /\ inv[c].pc \in {"idle", "returned"}
    /\ cycles < MaxCycles
    /\ inv' = [inv EXCEPT ![c] = [@ EXCEPT !.pc = "get", !.gets = 1]]
    /\ cycles' = cycles + 1
    /\ UNCHANGED <<e, described, registered, alive>>

\* a scrape calls Collect, which issues resp, err := e.httpClient.Get(e.url)
Invoke(c) ==
    /\ alive /\ registered
    /\ inv[c].pc \in {"idle", "returned"}
    /\ cycles < MaxCycles
    /\ inv' = [inv EXCEPT ![c] = [Idle EXCEPT !.pc = "get", !.gets = 1]]
    /\ cycles' = cycles + 1
    /\ UNCHANGED <<e, described, registered, alive>>

GetFails_Retries(c, r) ==
    /\ alive /\ inv[c].pc = "get"
    /\ r.err # ""
    /\ inv' = [inv EXCEPT ![c] =
                 IF @.gets < 2
                 THEN [@ EXCEPT !.gets = @ + 1]
                 ELSE [@ EXCEPT !.pc = "returned", !.resp = r,
                                !.out = Append(@, MustNewConstMetric(e.up, "gauge", 0)),
                                !.origin = Append(@, <<0, 0>>)]]
    /\ UNCHANGED <<e, described, registered, alive, cycles>>

\* if err != nil { ch <- up 0; return }
GetFails(c, r) ==
    /\ alive /\ inv[c].pc = "get"
    /\ r.err # ""
    /\ inv' = [inv EXCEPT ![c] =
                 [@ EXCEPT !.pc = "returned", !.resp = r,
                           !.out = Append(@, MustNewConstMetric(e.up, "gauge", 0)),
                           !.origin = Append(@, <<0, 0>>)]]
    /\ UNCHANGED <<e, described, registered, alive, cycles>>

\* if resp.StatusCode != http.StatusOK { ch <- up 0; return }
StatusNotOK(c, r) ==
    /\ alive /\ inv[c].pc = "get"
    /\ r.err = "" /\ ~StatusIsOK(r.StatusCode)
    /\ inv' = [inv EXCEPT ![c] =
                 [@ EXCEPT !.pc = "returned", !.resp = r,
                           !.out = Append(@, MustNewConstMetric(e.up, "gauge", 0)),
                           !.origin = Append(@, <<0, 0>>)]]
    /\ UNCHANGED <<e, described, registered, alive, cycles>>

\* err = dec.Decode(&envelope); if err != nil { ch <- up 0; return }
DecodeFails(c, r) ==
    /\ alive /\ inv[c].pc = "get"
    /\ r.err = "" /\ StatusIsOK(r.StatusCode)
    /\ Decode(r.Body).err
    /\ inv' = [inv EXCEPT ![c] =
                 [@ EXCEPT !.pc = "returned", !.resp = r,
                           !.out = Append(@, MustNewConstMetric(e.up, "gauge", 0)),
                           !.origin = Append(@, <<0, 0>>)]]
    /\ UNCHANGED <<e, described, registered, alive, cycles>>

\* the envelope decoded: ch <- up 1, then the loop starts
Decoded(c, r) ==
    /\ alive /\ inv[c].pc = "get"
    /\ r.err = "" /\ StatusIsOK(r.StatusCode)
    /\ ~Decode(r.Body).err
    /\ inv' = [inv EXCEPT ![c] =
                 [@ EXCEPT !.pc = "loop", !.resp = r,
                           !.envelope = Decode(r.Body).Beans,
                           !.i = 1, !.j = 1,
                           !.out = Append(@, MustNewConstMetric(e.up, "gauge", 1)),
                           !.origin = Append(@, <<0, 0>>)]]
    /\ UNCHANGED <<e, described, registered, alive, cycles>>

Send_OncePerDescriptor(c) ==
    LET x == inv[c]
        sample == SampleOf(e, CurrentCase(x)[x.j], CurrentBean(x))
    IN
    /\ alive /\ x.pc = "loop"
    /\ x.i <= Len(x.envelope)
    /\ x.j <= Len(CurrentCase(x))
    /\ ~Panics(CurrentCase(x)[x.j], CurrentBean(x))
    /\ inv' = [inv EXCEPT ![c] =
                 IF \E k \in 1..Len(x.out) : x.out[k].desc = sample.desc
                 THEN [@ EXCEPT !.j = @ + 1]
                 ELSE [@ EXCEPT !.j = @ + 1,
                                !.out = Append(@, sample),
                                !.origin = Append(@, <<RangeIndex(Len(x.envelope), x.i), x.j>>)]]
    /\ UNCHANGED <<e, described, registered, alive, cycles>>

\* one `ch <- ...` of the current case
Send(c) ==
    LET x == inv[c] IN
    /\ alive /\ x.pc = "loop"
    /\ x.i <= Len(x.envelope)
    /\ x.j <= Len(CurrentCase(x))
    /\ ~Panics(CurrentCase(x)[x.j], CurrentBean(x))
    /\ inv' = [inv EXCEPT ![c] =
                 [@ EXCEPT !.j = @ + 1,
                           !.out = Append(@, SampleOf(e, CurrentCase(x)[x.j], CurrentBean(x))),
                           !.origin = Append(@, <<RangeIndex(Len(x.envelope), x.i), x.j>>)]]
    /\ UNCHANGED <<e, described, registered, alive, cycles>>

Panic_SendsUpZero(c) ==
    LET x == inv[c] IN
    /\ alive /\ x.pc = "loop"
    /\ x.i <= Len(x.envelope)
    /\ x.j <= Len(CurrentCase(x))
    /\ Panics(CurrentCase(x)[x.j], CurrentBean(x))
    /\ inv' = [inv EXCEPT ![c] =
                 [@ EXCEPT !.pc = "panicked",
                           !.out = Append(@, MustNewConstMetric(e.up, "gauge", 0)),
                           !.origin = Append(@, <<0, 0>>)]]
    /\ alive' = FALSE
    /\ UNCHANGED <<e, described, registered, cycles>>

\* a type assertion of the current case fails: the goroutine panics, nothing
\* recovers it, the runtime ends the process
Panic(c) ==
    LET x == inv[c] IN
    /\ alive /\ x.pc = "loop"
    /\ x.i <= Len(x.envelope)
    /\ x.j <= Len(CurrentCase(x))
    /\ Panics(CurrentCase(x)[x.j], CurrentBean(x))
    /\ inv' = [inv EXCEPT ![c] = [@ EXCEPT !.pc = "panicked"]]
    /\ alive' = FALSE
    /\ UNCHANGED <<e, described, registered, cycles>>

\* the case is finished (or no case matched): next element of the range
NextBean(c) ==
    LET x == inv[c] IN
    /\ alive /\ x.pc = "loop"
    /\ x.i <= Len(x.envelope)
    /\ x.j > Len(CurrentCase(x))
    /\ inv' = [inv EXCEPT ![c] = [@ EXCEPT !.i = @ + 1, !.j = 1]]
    /\ UNCHANGED <<e, described, registered, alive, cycles>>

\* the range is exhausted: Collect returns (the deferred drain and Close run)
Return(c) ==
    LET x == inv[c] IN
    /\ alive /\ x.pc = "loop"
    /\ x.i > Len(x.envelope)
    /\ inv' = [inv EXCEPT ![c] = [@ EXCEPT !.pc = "returned"]]
    /\ UNCHANGED <<e, described, registered, alive, cycles>>

\* scrapes arrive one after another
Next ==
    \/ Register
    \/ Invoke(1)
    \/ \E r \in FetchResults : GetFails(1, r)
    \/ \E r \in FetchResults : StatusNotOK(1, r)
    \/ \E r \in FetchResults : DecodeFails(1, r)
    \/ \E r \in FetchResults : Decoded(1, r)
    \/ Send(1)
    \/ Panic(1)
    \/ NextBean(1)
    \/ Return(1)

Spec == Init /\ [][Next]_vars

\* scrapes overlap
NextOverlap ==
    \/ Register
    \/ \E c \in Invocations : Invoke(c)
    \/ \E c \in Invocations, r \in OverlapFetchResults : GetFails(c, r)
    \/ \E c \in Invocations, r \in OverlapFetchResults : StatusNotOK(c, r)
    \/ \E c \in Invocations, r \in OverlapFetchResults : DecodeFails(c, r)
    \/ \E c \in Invocations, r \in OverlapFetchResults : Decoded(c, r)
    \/ \E c \in Invocations : Send(c)
    \/ \E c \in Invocations : Panic(c)
    \/ \E c \in Invocations : NextBean(c)
    \/ \E c \in Invocations : Return(c)

SpecOverlap == Init /\ [][NextOverlap]_vars

\* a scrape served while no other scrape is being served
InvokeNext(c) ==
    /\ \A d \in Invocations \ {c} : inv[d].pc \in {"idle", "returned"}
    /\ Invoke(c)

\* scrapes arrive one after another and are served by different goroutines:
\* the samples of a finished cycle stay visible while later cycles run
NextTurns ==
    \/ Register
    \/ \E c \in Invocations : InvokeNext(c)
    \/ \E c \in Invocations, r \in OverlapFetchResults : GetFails(c, r)
    \/ \E c \in Invocations, r \in OverlapFetchResults : StatusNotOK(c, r)
    \/ \E c \in Invocations, r \in OverlapFetchResults : DecodeFails(c, r)
    \/ \E c \in Invocations, r \in OverlapFetchResults : Decoded(c, r)
    \/ \E c \in Invocations : Send(c)
    \/ \E c \in Invocations : Panic(c)
    \/ \E c \in Invocations : NextBean(c)
    \/ \E c \in Invocations : Return(c)

SpecTurns == Init /\ [][NextTurns]_vars

-----------------------------------------------------------------------------
(* Collect on one fetch result, run to its end with no other invocation *)

RECURSIVE LoopFrom(_, _, _, _, _)
LoopFrom(x, beans, i, j, out) ==
    IF i > Len(beans) THEN [out |-> out, panicked |-> FALSE]
    ELSE LET bean == beans[RangeIndex(Len(beans), i)]
             tbl == Switch(Lookup(bean, "name"))
         IN  IF j > Len(tbl) THEN LoopFrom(x, beans, i + 1, 1, out)
             ELSE IF Panics(tbl[j], bean) THEN [out |-> out, panicked |-> TRUE]
             ELSE LoopFrom(x, beans, i, j + 1, Append(out, SampleOf(x, tbl[j], bean)))

CollectAlone(x, r) ==
    IF r.err # "" \/ ~StatusIsOK(r.StatusCode) \/ Decode(r.Body).err
    THEN [out |-> << MustNewConstMetric(x.up, "gauge", 0) >>, panicked |-> FALSE]
    ELSE LoopFrom(x, Decode(r.Body).Beans, 1, 1, << MustNewConstMetric(x.up, "gauge", 1) >>)

TypeOK ==
    /\ registered \in BOOLEAN /\ alive \in BOOLEAN
    /\ cycles \in 0..MaxCycles
    /\ \A c \in Invocations :
          /\ inv[c].pc \in {"idle", "get", "loop", "returned", "panicked"}
          /\ Len(inv[c].out) = Len(inv[c].origin)

-----------------------------------------------------------------------------
(* Properties *)

UpSample(v) == [desc |-> "namenode_up", valueType |-> "gauge", value |-> v]

\* the Get of the invocation has returned
Started(x) == x.pc \notin {"idle", "get"}

\* the invocation sends nothing more
Finished(x) == x.pc \in {"returned", "panicked"}

GotOK(x) == Started(x) /\ x.resp.err = "" /\ x.resp.StatusCode = 200

\* fetch error or a status other than 200
FetchFailed(x) == Started(x) /\ (x.resp.err # "" \/ x.resp.StatusCode # 200)

\* the body is not one well-formed JSON document
MalformedJSON(x) == x.resp.Body.syntax # "ok" \/ x.resp.Body.trailing

\* no complete well-formed JSON value can be read from the start of the body
FirstValueUnreadable(x) == x.resp.Body.syntax # "ok"

ValidJSON(x) == GotOK(x) /\ x.resp.Body.syntax = "ok" /\ ~x.resp.Body.trailing

BeansSpellings == {"beans", "Beans", "BEANS"}

\* the document is an object and none of its members is named beans
NoBeansMember(x) ==
    /\ x.resp.Body.first.j = "object"
    /\ DOMAIN x.resp.Body.first.members \cap BeansSpellings = {}

\* the document is an object whose beans member is null
NullBeansMember(x) ==
    /\ x.resp.Body.first.j = "object"
    /\ \E k \in DOMAIN x.resp.Body.first.members \cap BeansSpellings :
          x.resp.Body.first.members[k].j = "null"

\* the document holds no array under beans
NoBeansArray(x) ==
    \/ x.resp.Body.first.j # "object"
    \/ \A k \in DOMAIN x.resp.Body.first.members \cap BeansSpellings :
          x.resp.Body.first.members[k].j # "array"

C3_FaultContained ==
    \A c \in Invocations : inv[c].pc = "panicked" => alive

-----------------------------------------------------------------------------

RecognizedNameSet ==
    { "java.lang:type=Runtime",
      "Hadoop:service=NameNode,name=NameNodeStatus",
      "Hadoop:service=NameNode,name=FSNamesystem",
      "Hadoop:service=NameNode,name=FSNamesystemState",
      "Hadoop:service=NameNode,name=NameNodeInfo",
      "Hadoop:service=NameNode,name=JvmMetrics" }

Recognized(bean) == Lookup(bean, "name") \in { Str(n) : n \in RecognizedNameSet }

\* indexes of the recognized beans of an envelope
RecognizedAt(beans) == { i \in 1..Len(beans) : Recognized(beans[i]) }

\* every mapped field of the bean holds a value of the mapped type
FullyPopulated(bean) ==
    LET tbl == Switch(Lookup(bean, "name")) IN
    \A n \in 1..Len(tbl) :
        Lookup(bean, tbl[n].field).t = (IF tbl[n].rule = "float64" THEN "float64" ELSE "string")

\* every recognized name occurs exactly once, fully populated
EachNameOnce(beans) ==
    /\ \A name \in RecognizedNameSet :
          Cardinality({ i \in 1..Len(beans) : Lookup(beans[i], "name") = Str(name) }) = 1
    /\ \A i \in RecognizedAt(beans) : FullyPopulated(beans[i])

\* the full sample set: up = 1 first, every announced identity exactly once,
\* every numeric sample equal to its source field, uptime included
FullSampleSet(x) ==
    /\ Len(x.out) = 39
    /\ x.out[1] = UpSample(1)
    /\ { x.out[k].desc : k \in 1..Len(x.out) } = described
    /\ Cardinality(described) = 39
    /\ \A k \in 2..Len(x.out) :
          LET bean == x.envelope[x.origin[k][1]]
              entry == Switch(Lookup(bean, "name"))[x.origin[k][2]]
          IN  entry.rule = "float64" => x.out[k].value = Lookup(bean, entry.field).n
    /\ \A i \in 1..Len(x.envelope) :
          Lookup(x.envelope[i], "name") = Str("java.lang:type=Runtime")
            => \E k \in 1..Len(x.out) :
                  /\ x.out[k].desc = "namenode_uptime_seconds"
                  /\ x.out[k].value = Lookup(x.envelope[i], "Uptime").n

SentFor(x, k, i, j) == x.origin[k] = <<i, j>>

\* the loop is past field j of the bean at array index i
Past(x, i, j) ==
    \/ x.pc = "returned"
    \/ x.pc \in {"loop", "panicked"} /\ (x.i > i \/ (x.i = i /\ x.j > j))

\* C5: for every NameNodeStatus bean whose State is a string, the state
\* sample is 1 when State is "active" and 0 for every other string.
C5_StateSample ==
    \A c \in Invocations :
        \A i \in 1..Len(inv[c].envelope) :
            LET x == inv[c]
                bean == x.envelope[i]
            IN  ( /\ Lookup(bean, "name") = Str("Hadoop:service=NameNode,name=NameNodeStatus")
                  /\ Lookup(bean, "State").t = "string"
                  /\ Past(x, i, 1) )
                => \E k \in 1..Len(x.out) :
                      /\ SentFor(x, k, i, 1)
                      /\ x.out[k].desc = "namenode_state"
                      /\ x.out[k].value =
                           (IF Lookup(bean, "State").s = "active" THEN 1 ELSE 0)

C5_Witness ==
    \E c \in Invocations :
        /\ inv[c].pc = "returned" /\ Len(inv[c].envelope) = 1
        /\ Lookup(inv[c].envelope[1], "name") = Str("Hadoop:service=NameNode,name=NameNodeStatus")
        /\ Lookup(inv[c].envelope[1], "State") = Str("")
        /\ inv[c].out = << UpSample(1),
                           [desc |-> "namenode_state", valueType |-> "gauge", value |-> 0] >>

\* C6: for every NameNodeInfo bean whose Safemode is a string, the
\* safemode_on sample is 1 when the string is non-empty (whitespace
\* included) and 0 when it is empty.
C6_SafemodeSample ==
    \A c \in Invocations :
        \A i \in 1..Len(inv[c].envelope) :
            LET x == inv[c]
                bean == x.envelope[i]
            IN  ( /\ Lookup(bean, "name") = Str("Hadoop:service=NameNode,name=NameNodeInfo")
                  /\ Lookup(bean, "Safemode").t = "string"
                  /\ Past(x, i, 1) )
                => \E k \in 1..Len(x.out) :
                      /\ SentFor(x, k, i, 1)
                      /\ x.out[k].desc = "namenode_safemode_on"
                      /\ x.out[k].value =
                           (IF Lookup(bean, "Safemode").s = "" THEN 0 ELSE 1)

C6_Witness ==
    \E c \in Invocations :
        /\ inv[c].pc = "returned" /\ Len(inv[c].envelope) = 1
        /\ Lookup(inv[c].envelope[1], "name") = Str("Hadoop:service=NameNode,name=NameNodeInfo")
        /\ Lookup(inv[c].envelope[1], "Safemode") = Str(" ")
        /\ inv[c].out[2] = [desc |-> "namenode_safemode_on", valueType |-> "gauge", value |-> 1]

-----------------------------------------------------------------------------

\* the 200 body decoded without error
DecodedOK(x) == GotOK(x) /\ ~Decode(x.resp.Body).err

\* the envelope without the beans whose name is not recognized
RemoveUnrecognized(beans) == SelectSeq(beans, Recognized)

\* C7: beans whose name is not recognized (no name, a name that is not a
\* string, another name) never change the output: the samples of a cycle
\* are those of the same envelope with these beans removed, and an envelope
\* with no recognized bean yields up = 1 and nothing else.
C7_UnrecognizedBeansIgnored ==
    \A c \in Invocations :
        (Finished(inv[c]) /\ DecodedOK(inv[c]))
            => /\ inv[c].out =
                    LoopFrom(e, RemoveUnrecognized(inv[c].envelope), 1, 1,
                             << UpSample(1) >>).out
               /\ RecognizedAt(inv[c].envelope) = {}
                    => inv[c].out = << UpSample(1) >> /\ inv[c].pc = "returned"

C7_Witness ==
    \E c \in Invocations :
        /\ inv[c].pc = "returned" /\ Len(inv[c].envelope) = 2
        /\ Lookup(inv[c].envelope[1], "name") = Str("java.lang:type=Memory")
        /\ Lookup(inv[c].envelope[1], "Uptime").t = "float64"
        /\ Lookup(inv[c].envelope[2], "name") = Str("Hadoop:service=NameNode,name=NameNodeStatus")
        /\ Len(inv[c].out) = 2

\* C8: every sample Collect emits, whatever the fetch result, carries a
\* descriptor that Describe sent.
C8_EmittedIsDescribed ==
    \A c \in Invocations :
        \A k \in 1..Len(inv[c].out) : inv[c].out[k].desc \in described

C8_Witness ==
    \E c \in Invocations :
        /\ inv[c].pc = "returned"
        /\ \E k \in 1..Len(inv[c].out) : inv[c].out[k].desc = "namenode_dfs_blocks_excess"
        /\ \E k \in 1..Len(inv[c].out) : inv[c].out[k].desc = "namenode_jvm_threads_terminated"

\* (i1, j1) comes before (i2, j2): bean-array order, then order of the sends
\* of the case
Before(o1, o2) == o1[1] < o2[1] \/ (o1[1] = o2[1] /\ o1[2] < o2[2])

\* C9: within one cycle the up sample is the first sample, no field sample
\* precedes it, and the field samples follow bean-array order and, within a
\* bean, the order of the sends of its case.
C9_EmissionOrder ==
    \A c \in Invocations :
        LET x == inv[c] IN
        x.out # << >> =>
            /\ x.out[1].desc = "namenode_up"
            /\ SentFor(x, 1, 0, 0)
            /\ \A k \in 2..Len(x.out) :
                  /\ x.out[k].desc # "namenode_up"
                  /\ x.origin[k][1] \in 1..Len(x.envelope)
                  /\ x.out[k].desc =
                       e[Switch(Lookup(x.envelope[x.origin[k][1]], "name"))[x.origin[k][2]].desc]
            /\ \A k, l \in 2..Len(x.out) : k < l => Before(x.origin[k], x.origin[l])

C9_Witness ==
    \E c \in Invocations :
        /\ inv[c].pc = "returned" /\ Len(inv[c].envelope) = 2
        /\ Lookup(inv[c].envelope[1], "name") = Str("Hadoop:service=NameNode,name=FSNamesystemState")
        /\ Lookup(inv[c].envelope[2], "name") = Str("java.lang:type=Runtime")
        /\ Len(inv[c].out) = 9
        /\ inv[c].out[9].desc = "namenode_uptime_seconds"

\* the invocation sends nothing more: it returned, it panicked, or the
\* process ended while it was in its loop
NoMoreSends(x) == Finished(x) \/ (~alive /\ x.pc = "loop")

\* C10 as stated: whatever the interleaving of overlapping invocations, each
\* emits the samples it would emit running alone on its own fetch result.
C10_EmitsAsAlone ==
    \A c \in Invocations :
        NoMoreSends(inv[c]) => inv[c].out = CollectAlone(e, inv[c].resp).out

\* what does hold of overlapping invocations: each has emitted a prefix of
\* what it would emit alone, and all of it once it returned or panicked
OverlapPrefixOfAlone ==
    \A c \in Invocations :
        Started(inv[c]) =>
            LET alone == CollectAlone(e, inv[c].resp).out IN
            /\ Len(inv[c].out) <= Len(alone)
            /\ inv[c].out = SubSeq(alone, 1, Len(inv[c].out))
            /\ Finished(inv[c]) => inv[c].out = alone

\* Collect never writes the Exporter
ExporterNeverMutated == [][e' = e]_vars

-----------------------------------------------------------------------------

\* C11: two collection cycles that receive the same fetch result emit the
\* same samples, in the same order, and end the same way, whatever the
\* cycles before them fetched or emitted.
C11_SameFetchSameSamples ==
    \A c, d \in Invocations :
        (Finished(inv[c]) /\ Finished(inv[d]) /\ inv[c].resp = inv[d].resp)
            => /\ inv[c].out = inv[d].out
               /\ inv[c].pc = inv[d].pc
               /\ inv[c].out = CollectAlone(e, inv[c].resp).out

\* three cycles have run; the two whose samples are still visible received
\* the same fetch result and emitted the same three samples
C11_Witness ==
    /\ cycles = 3
    /\ inv[1].pc = "returned" /\ inv[2].pc = "returned"
    /\ inv[1].resp = inv[2].resp
    /\ Len(inv[1].out) = 3 /\ inv[1].out = inv[2].out

-----------------------------------------------------------------------------

\* C12: a collection cycle issues one GET and no more: after a failed
\* fetch, a status other than 200 or a decode failure the cycle has returned
\* without another request.
C12_AtMostOneGet ==
    \A c \in Invocations :
        /\ inv[c].gets <= 1
        /\ inv[c].pc # "idle" => inv[c].gets = 1
        /\ (Started(inv[c]) /\ inv[c].out[1] = UpSample(0))
              => inv[c].pc = "returned" /\ inv[c].gets = 1

C12_Witness ==
    \E c \in Invocations :
        /\ inv[c].pc = "returned" /\ inv[c].gets = 1
        /\ inv[c].resp.err = "Client.Timeout exceeded"
        /\ inv[c].out = << UpSample(0) >>

-----------------------------------------------------------------------------

\* field number j of the bean is a numeric passthrough whose value is absent
\* or not a number
NumericFault(bean, j) ==
    LET tbl == Switch(Lookup(bean, "name")) IN
    /\ j \in 1..Len(tbl)
    /\ tbl[j].rule = "float64"
    /\ Lookup(bean, tbl[j].field).t # "float64"

\* the sends that precede field j of the bean at array index i
SendsBefore(beans, i, j) ==
    { o \in (1..Len(beans)) \X (1..Len(CaseJvmMetrics)) :
        /\ o[2] <= Len(Switch(Lookup(beans[o[1]], "name")))
        /\ Before(o, <<i, j>>) }

\* C13: when a numeric passthrough field of a recognized bean is absent or
\* not a number, emission stops at that field: the loop never gets past it,
\* no sample is emitted for it or for a later field of the bean, the
\* samples emitted before it (up = 1, the earlier beans, the earlier fields
\* of the bean) stay emitted, and no up = 0 is added.
C13_EmissionStopsAtFault ==
    \A c \in Invocations :
        LET x == inv[c] IN
        /\ \A i \in 1..Len(x.envelope) :
              \A j \in 1..Len(Switch(Lookup(x.envelope[i], "name"))) :
                  NumericFault(x.envelope[i], j) => ~Past(x, i, j)
        /\ x.pc = "panicked" =>
              /\ NumericFault(x.envelope[x.i], x.j)
              /\ x.out[1] = UpSample(1)
              /\ \A k \in 1..Len(x.out) : x.out[k] # UpSample(0)
              /\ \A k \in 1..Len(x.out) :
                    ~(x.origin[k][1] = x.i /\ x.origin[k][2] >= x.j)
              /\ { x.origin[k] : k \in 2..Len(x.out) } = SendsBefore(x.envelope, x.i, x.j)
              /\ Len(x.out) = 1 + Cardinality(SendsBefore(x.envelope, x.i, x.j))

C13_Witness ==
    \E c \in Invocations :
        /\ inv[c].pc = "panicked"
        /\ inv[c].i = 2 /\ inv[c].j = 3
        /\ Lookup(inv[c].envelope[1], "name") = Str("java.lang:type=Runtime")
        /\ Lookup(inv[c].envelope[2], "name") = Str("Hadoop:service=NameNode,name=NameNodeInfo")
        /\ "PercentRemaining" \notin DOMAIN inv[c].envelope[2]
        /\ Len(inv[c].out) = 4
        /\ inv[c].out[4].desc = "namenode_dfs_percent_used"

-----------------------------------------------------------------------------

\* the three fields read with a comparison instead of a type assertion
BooleanRules ==
    { [name |-> "Hadoop:service=NameNode,name=NameNodeStatus", field |-> "State",
       desc |-> "namenode_state", value |-> 0],
      [name |-> "Hadoop:service=NameNode,name=FSNamesystemState", field |-> "FSState",
       desc |-> "namenode_fs_operational", value |-> 0],
      [name |-> "Hadoop:service=NameNode,name=NameNodeInfo", field |-> "Safemode",
       desc |-> "namenode_safemode_on", value |-> 1] }

\* the bean falls under the rule and its field is absent or not a string
NotAString(bean, rule) ==
    /\ Lookup(bean, "name") = Str(rule.name)
    /\ Lookup(bean, rule.field).t # "string"

\* C14: State, FSState or Safemode absent or not a string is no coercion
\* fault: Collect does not panic there, emits the sample (state = 0,
\* fs_operational = 0, safemode_on = 1) and goes on to the next field.
C14_BooleanRulesNeverFault ==
    \A c \in Invocations : \A rule \in BooleanRules :
        LET x == inv[c] IN
        \A i \in 1..Len(x.envelope) :
            NotAString(x.envelope[i], rule) =>
                /\ ~(x.pc = "panicked" /\ x.i = i /\ x.j = 1)
                /\ (Past(x, i, 1) \/ (x.pc = "panicked" /\ x.i = i)) =>
                      \E k \in 1..Len(x.out) :
                          /\ SentFor(x, k, i, 1)
                          /\ x.out[k] = [desc |-> rule.desc, valueType |-> "gauge",
                                         value |-> rule.value]

\* Safemode absent: safemode_on = 1 is emitted and the loop goes on to the
\* other fields of the bean
C14_Witness ==
    \E c \in Invocations :
        /\ inv[c].pc = "returned" /\ Len(inv[c].envelope) = 1
        /\ Lookup(inv[c].envelope[1], "name") = Str("Hadoop:service=NameNode,name=NameNodeInfo")
        /\ "Safemode" \notin DOMAIN inv[c].envelope[1]
        /\ Len(inv[c].out) = 7
        /\ inv[c].out[2] = [desc |-> "namenode_safemode_on", valueType |-> "gauge", value |-> 1]
        /\ inv[c].out[3].desc = "namenode_dfs_percent_used"

-----------------------------------------------------------------------------

\* number of beans of the envelope with the given name
Occurrences(beans, name) ==
    Cardinality({ i \in 1..Len(beans) : Lookup(beans[i], "name") = Str(name) })

\* number of samples of the invocation with the given descriptor
SamplesOf(x, desc) == Cardinality({ k \in 1..Len(x.out) : x.out[k].desc = desc })

\* C15: every occurrence of a recognized bean is translated, with no
\* de-duplication: a cycle that runs to its return over an envelope with k
\* beans of one recognized name emits k samples for each descriptor of that
\* name, so a descriptor is emitted at most once exactly when no recognized
\* name occurs twice.
C15_NoDeduplication ==
    \A c \in Invocations :
        LET x == inv[c] IN
        (x.pc = "returned" /\ DecodedOK(x)) =>
            /\ \A name \in RecognizedNameSet :
                  LET tbl == Switch(Str(name)) IN
                  \A j \in 1..Len(tbl) :
                      SamplesOf(x, e[tbl[j].desc]) = Occurrences(x.envelope, name)
            /\ (\A name \in RecognizedNameSet : Occurrences(x.envelope, name) <= 1)
                  <=> (\A k, l \in 1..Len(x.out) : x.out[k].desc = x.out[l].desc => k = l)

C15_Witness ==
    \E c \in Invocations :
        /\ inv[c].pc = "returned" /\ Len(inv[c].envelope) = 2
        /\ Lookup(inv[c].envelope[1], "name") = Str("Hadoop:service=NameNode,name=FSNamesystemState")
        /\ inv[c].envelope[2] = inv[c].envelope[1]
        /\ Len(inv[c].out) = 15
        /\ inv[c].out[9] = inv[c].out[2]

====
